---- MODULE Spec2Model ----
(***************************************************************************)
(* The asynchronous Mutex of                                               *)
(* src/plugins/decor/ui/modals/ChangeDecorationModal.tsx (lines 165-202)   *)
(* and its callers, as a state machine.                                    *)
(*                                                                         *)
(* JavaScript is single threaded: lock(), unlock() and every promise       *)
(* callback run to completion, so each is one atomic action.  A promise    *)
(* that has been resolved runs its continuation in a LATER microtask, so   *)
(* "the handle of p completed" (pc[p] = "granted") and "p resumed" are     *)
(* two different states, and other callers' steps may come in between.     *)
(***************************************************************************)
EXTENDS Naturals, Sequences, FiniteSets

\* Number of callers; each makes one top-level lock() or with() call.
NProcs == 4
\* Number of unlock() calls made without a matching lock() (SpecMisuse).
MaxRogue == 1
\* Number of callers that take part under SpecLive and under SpecMisuse.
LiveProcs == 3
MisuseProcs == 3
\* Number of plugins shown as cards on the settings page (SpecToggle).
NPlugins == 2

Procs == 1..NProcs

VARIABLES
    locked,     \* Mutex.locked
    queue,      \* Mutex.queue: the resolvers, each named by its caller
    pc,         \* each caller's position
    mode,       \* how each caller uses the mutex: "raw" lock/unlock or "with"
    arrivals,   \* history: callers in the order of their lock() calls
    grants,     \* history: callers in the order their handles completed
    queuedAt,   \* history: the place in the queue a caller's lock() call got (0: none)
    started,    \* history: with() callers in the order their action was invoked
    unlocked,   \* history: callers whose unlock() has been performed
    rogue       \* history: number of unmatched unlock() calls so far

\* The plugins of the settings page (components/PluginSettings/index.tsx).
PluginNames == 1..NPlugins

VARIABLES
    enabled,        \* settings.plugins[name].enabled
    pluginStarted,  \* plugin.started
    patches,        \* whether plugin.patches is truthy (never changes)
    changes,        \* the ChangeList of the page: names given to onRestartNeeded
    last            \* history: the latest toggleEnabled call, its inputs and what it did

mutexVars == <<locked, queue, pc, mode, arrivals, grants, queuedAt, started, unlocked, rogue>>

toggleVars == <<enabled, pluginStarted, patches, changes, last>>

vars == <<mutexVars, toggleVars>>

PcStates == {"idle", "waiting", "granted", "cs", "acting", "settled",
             "done", "failed", "reentered", "regranted"}

Range(s) == {s[i] : i \in 1..Len(s)}

TypeOK ==
    /\ locked \in BOOLEAN
    /\ queue \in Seq(Procs)
    /\ pc \in [Procs -> PcStates]
    /\ mode \in [Procs -> {"none", "raw", "with"}]
    /\ arrivals \in Seq(Procs)
    /\ grants \in Seq(Procs)
    /\ queuedAt \in [Procs -> 0..NProcs]
    /\ started \in Seq(Procs)
    /\ unlocked \subseteq Procs
    /\ rogue \in 0..MaxRogue
    /\ enabled \in [PluginNames -> BOOLEAN]
    /\ pluginStarted \in [PluginNames -> BOOLEAN]
    /\ patches \in [PluginNames -> BOOLEAN]
    /\ changes \subseteq PluginNames
    /\ last.plugin \in 0..NPlugins
    /\ last.called \in {"none", "startPlugin", "stopPlugin"}

\* No toggleEnabled call has been made yet.
NoToggle ==
    [plugin |-> 0, wasEnabled |-> FALSE, enabledBefore |-> FALSE,
     startedBefore |-> FALSE, depsCalled |-> FALSE, restartNeeded |-> FALSE,
     failures |-> {}, called |-> "none", result |-> FALSE, notified |-> FALSE]

\* A new Mutex (the field initialisers) that nobody has called yet.
MutexInit ==
    /\ locked = FALSE
    /\ queue = <<>>
    /\ pc = [p \in Procs |-> "idle"]
    /\ mode = [p \in Procs |-> "none"]
    /\ arrivals = <<>>
    /\ grants = <<>>
    /\ queuedAt = [p \in Procs |-> 0]
    /\ started = <<>>
    /\ unlocked = {}
    /\ rogue = 0

\* The mutex is studied with the settings page left alone: no plugin
\* enabled or started, nothing toggled.
Init ==
    /\ MutexInit
    /\ enabled = [pl \in PluginNames |-> FALSE]
    /\ pluginStarted = [pl \in PluginNames |-> FALSE]
    /\ patches = [pl \in PluginNames |-> FALSE]
    /\ changes = {}
    /\ last = NoToggle

(***************************************************************************)
(* Mutex.lock and Mutex.unlock as functions of the mutex's fields.         *)
(* "resolved" of lock: whether the returned promise is already resolved.   *)
(* "resolved" of unlock: the resolvers it called, in order.                *)
(***************************************************************************)

\* The callers between the completion of a lock() handle and their unlock().
Holders == {p \in Procs : p \in Range(grants) /\ p \notin unlocked}

\* lock() made re-entrant: the holder's own second call is granted at once.
lock_Reentrant(h) ==
    IF locked /\ h \notin Holders
    THEN [locked |-> locked, queue |-> Append(queue, h), resolved |-> FALSE]
    ELSE [locked |-> TRUE, queue |-> queue, resolved |-> TRUE]

\* lock() that forgets to set the flag in the free branch.
lock_NoFlag(h) ==
    IF locked
    THEN [locked |-> locked, queue |-> Append(queue, h), resolved |-> FALSE]
    ELSE [locked |-> locked, queue |-> queue, resolved |-> TRUE]

lock(h) ==
    IF locked
    THEN [locked |-> locked, queue |-> Append(queue, h), resolved |-> FALSE]
    ELSE [locked |-> TRUE, queue |-> queue, resolved |-> TRUE]

\* unlock() that takes the newest waiter (pop instead of shift).
unlock_Pop ==
    IF Len(queue) # 0
    THEN [locked |-> locked, queue |-> SubSeq(queue, 1, Len(queue) - 1),
          resolved |-> <<queue[Len(queue)]>>]
    ELSE [locked |-> FALSE, queue |-> queue, resolved |-> <<>>]

\* unlock() that frees the flag before it wakes the waiter.
unlock_Gap ==
    IF Len(queue) # 0
    THEN [locked |-> FALSE, queue |-> Tail(queue), resolved |-> <<Head(queue)>>]
    ELSE [locked |-> FALSE, queue |-> queue, resolved |-> <<>>]

\* unlock() without the else branch: the flag is never cleared.
unlock_NoFree ==
    IF Len(queue) # 0
    THEN [locked |-> locked, queue |-> Tail(queue), resolved |-> <<Head(queue)>>]
    ELSE [locked |-> locked, queue |-> queue, resolved |-> <<>>]

\* unlock() that shifts the earliest waiter off the queue and forgets to
\* call its resolver.
unlock_LostWakeup ==
    IF Len(queue) # 0
    THEN [locked |-> locked, queue |-> Tail(queue), resolved |-> <<>>]
    ELSE [locked |-> FALSE, queue |-> queue, resolved |-> <<>>]

unlock ==
    IF Len(queue) # 0
    THEN [locked |-> locked, queue |-> Tail(queue), resolved |-> <<Head(queue)>>]
    ELSE [locked |-> FALSE, queue |-> queue, resolved |-> <<>>]

\* The position of a caller whose pending handle has just been resolved.
Granted(s) == IF s = "reentered" THEN "regranted" ELSE "granted"

\* The caller p calls lock(); `queuedAs` is its position if it has to wait.
Acquire(p, queuedAs, grantedAs) ==
    LET r == lock(p) IN
    /\ locked' = r.locked
    /\ queue' = r.queue
    /\ pc' = [pc EXCEPT ![p] = IF r.resolved THEN grantedAs ELSE queuedAs]
    /\ grants' = IF r.resolved THEN Append(grants, p) ELSE grants
    /\ queuedAt' = IF r.resolved THEN queuedAt ELSE [queuedAt EXCEPT ![p] = Len(r.queue)]

\* One unlock() call: its effect on the mutex and on the waiter it wakes.
\* `after` gives the callers' positions once the caller of unlock() has moved.
Release(after) ==
    LET r == unlock IN
    /\ locked' = r.locked
    /\ queue' = r.queue
    /\ pc' = [q \in Procs |->
                IF q \in Range(r.resolved) THEN Granted(after[q]) ELSE after[q]]
    /\ grants' = grants \o r.resolved

(***************************************************************************)
(* Callers of lock() / unlock() directly:  await m.lock(); ...; m.unlock() *)
(***************************************************************************)

\* A caller calls lock() (lines 169-178) and awaits the returned promise.
LockCall(p) ==
    /\ pc[p] = "idle"
    /\ mode' = [mode EXCEPT ![p] = "raw"]
    /\ arrivals' = Append(arrivals, p)
    /\ Acquire(p, "waiting", "granted")
    /\ UNCHANGED <<started, unlocked, rogue, toggleVars>>

\* The continuation of `await m.lock()` runs: the caller is in its
\* critical section.
Resume(p) ==
    /\ pc[p] = "granted"
    /\ mode[p] = "raw"
    /\ pc' = [pc EXCEPT ![p] = "cs"]
    /\ UNCHANGED <<locked, queue, mode, arrivals, grants, queuedAt, started, unlocked, rogue, toggleVars>>

\* The holder calls unlock() (lines 180-189), once.
Unlock(p) ==
    /\ pc[p] = "cs"
    /\ Release([pc EXCEPT ![p] = "done"])
    /\ unlocked' = unlocked \cup {p}
    /\ UNCHANGED <<mode, arrivals, queuedAt, started, rogue, toggleVars>>

\* The holder calls lock() again before it has released: from its critical
\* section, or from inside its own with() action (a nested with()).
Relock(p) ==
    /\ pc[p] \in {"cs", "acting"}
    /\ Acquire(p, "reentered", "regranted")
    /\ UNCHANGED <<mode, arrivals, started, unlocked, rogue, toggleVars>>

(***************************************************************************)
(* Mutex.with (lines 191-201):                                             *)
(*   this.lock().then(() => { const ret = cb();                            *)
(*       if (ret instanceof Promise) return ret.then(() => this.unlock()); *)
(*       this.unlock(); })                                                 *)
(***************************************************************************)

\* with(cb) is called: it calls lock() and chains the callback.
WithCall(p) ==
    /\ pc[p] = "idle"
    /\ mode' = [mode EXCEPT ![p] = "with"]
    /\ arrivals' = Append(arrivals, p)
    /\ Acquire(p, "waiting", "granted")
    /\ UNCHANGED <<started, unlocked, rogue, toggleVars>>

\* with() that releases as soon as the action has been called, without
\* waiting for the promise the action returned.
with_then_UnlockEarly(p, ret) ==
    /\ started' = Append(started, p)
    /\ IF ret = "throw"
       THEN /\ pc' = [pc EXCEPT ![p] = "failed"]
            /\ UNCHANGED <<locked, queue, grants, unlocked>>
       ELSE /\ Release([pc EXCEPT ![p] = IF ret = "promise" THEN "acting" ELSE "done"])
            /\ unlocked' = unlocked \cup {p}

\* The callback with() passes to then (lines 192-200), run once the lock()
\* promise has resolved.  `ret` is what cb() does: "throw" (it throws),
\* "promise" (it returns a pending or settled Promise), "void" (it returns
\* something that is no Promise).
with_then(p, ret) ==
    /\ started' = Append(started, p)
    /\ IF ret = "throw"
       THEN \* line 193 throws: lines 194-199 are skipped
            /\ pc' = [pc EXCEPT ![p] = "failed"]
            /\ UNCHANGED <<locked, queue, grants, unlocked>>
       ELSE IF ret = "promise"
       THEN \* lines 194-198: unlock is chained on the promise
            /\ pc' = [pc EXCEPT ![p] = "acting"]
            /\ UNCHANGED <<locked, queue, grants, unlocked>>
       ELSE \* line 199
            /\ Release([pc EXCEPT ![p] = "done"])
            /\ unlocked' = unlocked \cup {p}

CbThrows(p) ==
    /\ pc[p] = "granted"
    /\ mode[p] = "with"
    /\ with_then(p, "throw")
    /\ UNCHANGED <<mode, arrivals, queuedAt, rogue, toggleVars>>

CbReturnsPromise(p) ==
    /\ pc[p] = "granted"
    /\ mode[p] = "with"
    /\ with_then(p, "promise")
    /\ UNCHANGED <<mode, arrivals, queuedAt, rogue, toggleVars>>

CbReturnsVoid(p) ==
    /\ pc[p] = "granted"
    /\ mode[p] = "with"
    /\ with_then(p, "void")
    /\ UNCHANGED <<mode, arrivals, queuedAt, rogue, toggleVars>>

\* The promise the action returned is fulfilled: the callback of line 195
\* is scheduled.
PromiseFulfilled(p) ==
    /\ pc[p] = "acting"
    /\ pc' = [pc EXCEPT ![p] = "settled"]
    /\ UNCHANGED <<locked, queue, mode, arrivals, grants, queuedAt, started, unlocked, rogue, toggleVars>>

\* The promise the action returned is rejected: ret.then(onFulfilled) has no
\* rejection handler, so the callback of line 195 never runs and the
\* rejection reaches the caller of with().
PromiseRejected(p) ==
    /\ pc[p] = "acting"
    /\ pc' = [pc EXCEPT ![p] = "failed"]
    /\ UNCHANGED <<locked, queue, mode, arrivals, grants, queuedAt, started, unlocked, rogue, toggleVars>>

\* The callback of lines 195-197 runs: unlock().
ThenUnlock(p) ==
    /\ pc[p] = "settled"
    /\ Release([pc EXCEPT ![p] = "done"])
    /\ unlocked' = unlocked \cup {p}
    /\ UNCHANGED <<mode, arrivals, queuedAt, started, rogue, toggleVars>>

(***************************************************************************)
(* Misuse: somebody who holds nothing calls unlock().                      *)
(***************************************************************************)
RogueUnlock ==
    /\ rogue < MaxRogue
    /\ rogue' = rogue + 1
    /\ Release(pc)
    /\ UNCHANGED <<mode, arrivals, queuedAt, started, unlocked, toggleVars>>

(***************************************************************************)
(* PluginCard.toggleEnabled (components/PluginSettings/index.tsx, lines    *)
(* 101-142).  startDependenciesRecursive, startPlugin and stopPlugin are   *)
(* imported (line 25): what they return is an input of the call.  What     *)
(* startPlugin / stopPlugin leave in plugin.started is an input too.       *)
(* startDependenciesRecursive acts on the dependencies, which are other    *)
(* plugins; every combination of their settings is an initial state, so    *)
(* the model leaves their fields alone.                                    *)
(***************************************************************************)

\* isEnabled (lines 89-91): pluginSettings?.enabled || plugin.started
isEnabled(pl) == enabled[pl] \/ pluginStarted[pl]

\* What startDependenciesRecursive may return for a plugin.
DepResults(pl) ==
    [restartNeeded : BOOLEAN, failures : SUBSET (PluginNames \ {pl})]

\* toggleEnabled that sets the flag before it looks at the outcome of
\* startPlugin / stopPlugin and of the dependencies.
toggleEnabled_SetFirst(pl, deps, result) ==
    LET wasEnabled == isEnabled(pl)
        fn == IF wasEnabled THEN "stopPlugin" ELSE "startPlugin"
    IN
    IF ~wasEnabled /\ deps.failures # {}
    THEN [enabled |-> ~wasEnabled, notify |-> FALSE, called |-> "none"]
    ELSE IF ~wasEnabled /\ deps.restartNeeded
    THEN [enabled |-> TRUE, notify |-> TRUE, called |-> "none"]
    ELSE IF patches[pl]
    THEN [enabled |-> ~wasEnabled, notify |-> TRUE, called |-> "none"]
    ELSE IF wasEnabled /\ ~pluginStarted[pl]
    THEN [enabled |-> ~wasEnabled, notify |-> FALSE, called |-> "none"]
    ELSE [enabled |-> ~wasEnabled, notify |-> FALSE, called |-> fn]

\* toggleEnabled without the patches branch of lines 119-124: a plugin with
\* patches is started and stopped like any other.
toggleEnabled_NoPatchesBranch(pl, deps, result) ==
    LET wasEnabled == isEnabled(pl)
        fn == IF wasEnabled THEN "stopPlugin" ELSE "startPlugin"
    IN
    IF ~wasEnabled /\ deps.failures # {}
    THEN [enabled |-> enabled[pl], notify |-> FALSE, called |-> "none"]
    ELSE IF ~wasEnabled /\ deps.restartNeeded
    THEN [enabled |-> TRUE, notify |-> TRUE, called |-> "none"]
    ELSE IF wasEnabled /\ ~pluginStarted[pl]
    THEN [enabled |-> ~wasEnabled, notify |-> FALSE, called |-> "none"]
    ELSE IF ~result
    THEN [enabled |-> enabled[pl], notify |-> FALSE, called |-> fn]
    ELSE [enabled |-> ~wasEnabled, notify |-> FALSE, called |-> fn]

\* toggleEnabled (lines 101-142) for the card of plugin pl.  `deps` is what
\* startDependenciesRecursive returns if it is called, `result` what
\* startPlugin / stopPlugin returns if one is called.  The value: the
\* plugin's enabled setting after the call, whether onRestartNeeded was
\* called, and which of startPlugin / stopPlugin was called.
toggleEnabled(pl, deps, result) ==
    LET wasEnabled == isEnabled(pl)
        fn == IF wasEnabled THEN "stopPlugin" ELSE "startPlugin"
    IN
    IF ~wasEnabled /\ deps.failures # {}
    THEN \* lines 107-110
         [enabled |-> enabled[pl], notify |-> FALSE, called |-> "none"]
    ELSE IF ~wasEnabled /\ deps.restartNeeded
    THEN \* lines 111-115
         [enabled |-> TRUE, notify |-> TRUE, called |-> "none"]
    ELSE IF patches[pl]
    THEN \* lines 120-124
         [enabled |-> ~wasEnabled, notify |-> TRUE, called |-> "none"]
    ELSE IF wasEnabled /\ ~pluginStarted[pl]
    THEN \* lines 127-130
         [enabled |-> ~wasEnabled, notify |-> FALSE, called |-> "none"]
    ELSE IF ~result
    THEN \* lines 132-139
         [enabled |-> enabled[pl], notify |-> FALSE, called |-> fn]
    ELSE \* lines 132-141
         [enabled |-> ~wasEnabled, notify |-> FALSE, called |-> fn]

\* The switch of the card of pl is flipped (line 147).  onRestartNeeded adds
\* the name to the page's ChangeList (lines 272, 298).
ToggleEnabled(pl) ==
    \E deps \in DepResults(pl), result \in BOOLEAN, startedAfter \in BOOLEAN :
        LET t == toggleEnabled(pl, deps, result)
            depsCalled == ~isEnabled(pl)
        IN
        /\ enabled' = [enabled EXCEPT ![pl] = t.enabled]
        /\ pluginStarted' = IF t.called = "none"
                            THEN pluginStarted
                            ELSE [pluginStarted EXCEPT ![pl] = startedAfter]
        /\ changes' = IF t.notify THEN changes \cup {pl} ELSE changes
        /\ last' = [plugin |-> pl,
                    wasEnabled |-> isEnabled(pl),
                    enabledBefore |-> enabled[pl],
                    startedBefore |-> pluginStarted[pl],
                    depsCalled |-> depsCalled,
                    restartNeeded |-> depsCalled /\ deps.restartNeeded,
                    failures |-> IF depsCalled THEN deps.failures ELSE {},
                    called |-> t.called,
                    result |-> t.called # "none" /\ result,
                    notified |-> t.notify]
        /\ UNCHANGED <<patches, mutexVars>>

(***************************************************************************)
(* Specifications                                                          *)
(***************************************************************************)

\* The settings page as it may be when it is opened: each plugin with or
\* without patches, enabled or not in the settings, started or not; nothing
\* toggled yet.
InitToggle ==
    /\ MutexInit
    /\ enabled \in [PluginNames -> BOOLEAN]
    /\ pluginStarted \in [PluginNames -> BOOLEAN]
    /\ patches \in [PluginNames -> BOOLEAN]
    /\ changes = {}
    /\ last = NoToggle

NextToggle == \E pl \in PluginNames : ToggleEnabled(pl)

\* The user flips the switches of the plugin cards, in any order.
SpecToggle == InitToggle /\ [][NextToggle]_vars

\* The steps of callers that use the mutex as documented.
Paired(P) ==
    \E p \in P :
        \/ LockCall(p)
        \/ Resume(p)
        \/ Unlock(p)
        \/ WithCall(p)
        \/ CbThrows(p)
        \/ CbReturnsPromise(p)
        \/ CbReturnsVoid(p)
        \/ PromiseFulfilled(p)
        \/ PromiseRejected(p)
        \/ ThenUnlock(p)

Next ==
    \/ Paired(Procs)
    \/ \E p \in Procs : Relock(p)

\* Every unlock() is the holder's own: with failing actions and re-entrant
\* callers, without unmatched unlock() calls.
Spec == Init /\ [][Next]_vars

NextMisuse ==
    \/ Paired(1..MisuseProcs)
    \/ RogueUnlock

\* Callers as in Paired, plus unlock() calls nobody is entitled to.
SpecMisuse == Init /\ [][NextMisuse]_vars

\* The steps of a caller that releases what it was granted: actions settle
\* normally and nobody re-enters.
Settles(p) ==
    \/ Resume(p)
    \/ Unlock(p)
    \/ CbReturnsPromise(p)
    \/ CbReturnsVoid(p)
    \/ PromiseFulfilled(p)
    \/ ThenUnlock(p)

NextLive ==
    \E p \in 1..LiveProcs :
        \/ LockCall(p)
        \/ WithCall(p)
        \/ Settles(p)

\* Every granted caller eventually calls unlock() exactly once.  The event
\* loop runs every scheduled continuation, hence weak fairness of each
\* caller's steps after its call; calls themselves need not happen.
SpecLive == Init /\ [][NextLive]_vars /\ \A p \in 1..LiveProcs : WF_vars(Settles(p))

(***************************************************************************)
(* Properties                                                              *)
(***************************************************************************)

\* The callers whose lock() call had to wait in the queue.
Waited == {p \in Procs : queuedAt[p] > 0}

\* The place of p in the order of the lock() calls (0: not called yet).
ArrivalIndex(p) ==
    IF p \in Range(arrivals)
    THEN CHOOSE i \in 1..Len(arrivals) : arrivals[i] = p
    ELSE 0

\* This step is an unlock() call.
UnlockStep == unlocked' # unlocked \/ rogue' # rogue

\* This step is the top-level lock() call of p (directly or through with()).
LockStep(p) == pc[p] = "idle" /\ pc'[p] # "idle"

\* C1: mutual exclusion.  At no instant are two callers between the
\* completion of their lock() handle and their own unlock().
C1_MutualExclusion == Cardinality(Holders) <= 1

\* A holder that had to wait holds while somebody else waits and a former
\* holder has released.
C1_Witness ==
    \E p \in Holders :
        /\ p \in Waited
        /\ pc[p] \in {"cs", "acting"}
        /\ queue # <<>>
        /\ unlocked # {}

\* C2: FIFO grant order.  Handles complete in the order of the lock()
\* calls: the callers granted so far are exactly the first Len(grants)
\* arrivals, in arrival order.
C2_FifoGrantOrder == grants = SubSeq(arrivals, 1, Len(grants))

\* A, B and C queued in that order behind one holder (C found A and B ahead
\* of it) and all three have been granted by successive unlock() calls.
C2_Witness ==
    /\ Len(grants) = 4
    /\ queuedAt[grants[2]] = 1
    /\ queuedAt[grants[3]] = 2
    /\ queuedAt[grants[4]] = 3

\* C3: with(action) releases the lock even when the action fails.  A with()
\* call that has failed has performed its unlock().
C3_ReleasedOnFailure ==
    \A p \in Procs : pc[p] = "failed" => p \in unlocked

\* C4: hand-off without a free gap.  An unlock() call that finds waiters
\* leaves the flag set, removes exactly the earliest waiter and completes
\* its handle and nobody else's; and while a woken waiter has not resumed
\* yet, a caller that calls lock() is queued.
C4_HandOffWithoutGap ==
    [][ /\ (UnlockStep /\ Len(queue) > 0) =>
            /\ locked /\ locked'
            /\ queue' = Tail(queue)
            /\ grants' = Append(grants, Head(queue))
            /\ pc'[Head(queue)] = "granted"
            /\ \A q \in Procs \ {Head(queue)} :
                  pc[q] = "waiting" => pc'[q] = "waiting"
        /\ \A q \in Procs :
            (LockStep(q) /\ \E p \in Procs : pc[p] = "granted") =>
                /\ pc'[q] = "waiting"
                /\ queue' = Append(queue, q)
                /\ grants' = grants
      ]_vars

\* p was woken from the queue and has not resumed; q called lock() after
\* that unlock() (it found the queue empty) and is queued.
C4_Witness ==
    \E p, q \in Procs :
        /\ pc[p] = "granted"
        /\ queuedAt[p] > 0
        /\ pc[q] = "waiting"
        /\ queuedAt[q] = 1
        /\ ArrivalIndex(p) < ArrivalIndex(q)

\* C5: a lock() call on a held lock queues the caller, and a handle
\* completes no earlier than the previous holder's unlock(): every caller
\* granted before the latest one has released, a lock() call on a held lock
\* appends the caller and completes nothing, and a waiting caller stops
\* waiting only in a step that is an unlock() call.
C5_GrantedAfterPriorUnlock ==
    /\ [](\A i \in 2..Len(grants) : grants[i - 1] \in unlocked)
    /\ [][ \A p \in Procs :
            /\ (LockStep(p) /\ locked) =>
                  /\ queue' = Append(queue, p)
                  /\ pc'[p] = "waiting"
                  /\ grants' = grants
                  /\ locked'
            /\ (pc[p] = "waiting" /\ pc'[p] # "waiting") =>
                  /\ UnlockStep
                  /\ Len(grants) > 0
                  /\ grants[Len(grants)] \in unlocked'
         ]_vars

\* The second caller waited and was granted at the first holder's unlock().
C5_Witness ==
    /\ Len(grants) >= 2
    /\ grants[2] \in Waited
    /\ grants[1] \in unlocked
    /\ pc[grants[2]] = "granted"

\* C6: free/held round trip.  unlock() with an empty queue clears the flag
\* and completes nothing; lock() on a free lock sets the flag and completes
\* at once without queuing.
C6_FreeHeldRoundTrip ==
    [][ /\ (UnlockStep /\ Len(queue) = 0) =>
            /\ ~locked'
            /\ queue' = queue
            /\ grants' = grants
        /\ \A p \in Procs :
            (LockStep(p) /\ ~locked) =>
                /\ locked'
                /\ pc'[p] = "granted"
                /\ queue' = queue
                /\ grants' = Append(grants, p)
                /\ queuedAt'[p] = 0
      ]_vars

\* After the previous holders all released, a later caller got the lock
\* without waiting.
C6_Witness ==
    \E p \in Procs :
        /\ pc[p] = "granted"
        /\ queuedAt[p] = 0
        /\ ArrivalIndex(p) >= 2
        /\ \A q \in Procs : ArrivalIndex(q) \in 1..(ArrivalIndex(p) - 1) => q \in unlocked

\* The with() callers whose action has been invoked and has not settled.
Running == {p \in Procs : mode[p] = "with" /\ pc[p] \in {"acting", "reentered"}}

\* The with() callers in the order of their with() calls.
WithArrivals == SelectSeq(arrivals, LAMBDA p : mode[p] = "with")

\* C7: with(action) ordering.  An action is invoked only once its call has
\* been granted the lock; a with() call has not performed unlock() while
\* its action is unsettled; two actions are never unsettled at once; and
\* the actions are invoked in the order of the with() calls.
C7_WithOrdering ==
    /\ Range(started) \subseteq Range(grants)
    /\ \A p \in Procs :
        (mode[p] = "with" /\ p \in unlocked) =>
            (p \in Range(started) /\ p \notin Running)
    /\ Cardinality(Running) <= 1
    /\ Len(started) <= Len(WithArrivals)
    /\ started = SubSeq(WithArrivals, 1, Len(started))

\* An asynchronous action of a with() call that had to wait has settled and
\* its unlock() is still to come, while a later with() call waits.
C7_Witness ==
    \E p, q \in Procs :
        /\ mode[p] = "with" /\ pc[p] = "settled" /\ p \in Waited
        /\ mode[q] = "with" /\ pc[q] = "waiting"
        /\ Len(started) >= 2

\* C8: no starvation.  When every granted caller releases, every caller
\* that waits is eventually granted, and no caller is granted while one
\* that called lock() before it still waits.
C8_NoStarvation ==
    /\ \A p \in Procs : (pc[p] = "waiting") ~> (p \in Range(grants))
    /\ [](\A p, q \in Procs :
            (pc[p] = "waiting" /\ q \in Range(grants)) =>
                ArrivalIndex(q) < ArrivalIndex(p))

\* Every caller that called has been granted and has released, two of them
\* after waiting in the queue together.
C8_Witness ==
    /\ \A p \in Range(arrivals) : pc[p] = "done"
    /\ \E p, q \in Procs : queuedAt[p] = 1 /\ queuedAt[q] = 2

\* C9: no reentrancy.  A holder that calls lock() again is queued behind
\* itself; from then on its second handle never completes, the flag stays
\* set, nobody leaves the queue and every waiter keeps waiting.
C9_NoReentrancy ==
    [][ \A p \in Procs :
          /\ (pc[p] \in {"cs", "acting"} /\ pc'[p] \in {"reentered", "regranted"}) =>
                /\ pc'[p] = "reentered"
                /\ queue' = Append(queue, p)
          /\ pc[p] = "reentered" =>
                /\ pc'[p] = "reentered"
                /\ locked /\ locked'
                /\ Len(queue') >= Len(queue)
                /\ SubSeq(queue', 1, Len(queue)) = queue
                /\ grants' = grants
                /\ \A q \in Procs : pc[q] = "waiting" => pc'[q] = "waiting"
      ]_vars

\* A holder waits for itself, and a caller that came later waits behind it.
C9_Witness ==
    \E p, q \in Procs :
        /\ pc[p] = "reentered"
        /\ pc[q] = "waiting"
        /\ queuedAt[p] < queuedAt[q]

\* The callers that are inside their critical section.
InCriticalSection == {p \in Procs : pc[p] \in {"cs", "acting", "settled"}}

\* C10: unguarded misuse.  An unlock() call nobody is entitled to is always
\* possible and acts like any other: with an empty queue it clears the flag
\* and moves nobody, with waiters it completes the handle of the earliest.
C10_UnguardedUnlock ==
    /\ [](rogue < MaxRogue => ENABLED RogueUnlock)
    /\ [][ rogue' # rogue =>
            IF Len(queue) = 0
            THEN ~locked' /\ queue' = queue /\ pc' = pc /\ grants' = grants
            ELSE /\ locked' = locked
                 /\ queue' = Tail(queue)
                 /\ grants' = Append(grants, Head(queue))
                 /\ pc'[Head(queue)] = "granted"
         ]_vars

\* After an unmatched unlock() two callers are in their critical sections.
C10_Witness ==
    /\ rogue >= 1
    /\ Cardinality(InCriticalSection) >= 2
    /\ Cardinality(Holders) >= 2

\* C12: lock state invariant under paired use.  While somebody waits the
\* flag is set, and the flag is set exactly when some caller has been
\* granted the lock and has not released it.
C12_LockStateInvariant ==
    /\ queue # <<>> => locked
    /\ locked <=> Holders # {}

\* A caller woken from the queue holds the lock after an earlier holder
\* released, and another caller still waits.
C12_Witness ==
    /\ Len(queue) >= 1
    /\ locked
    /\ \E p \in Holders : queuedAt[p] > 0 /\ pc[p] = "granted"
    /\ \E q \in unlocked : pc[q] = "done"

\* C11: toggling a plugin that has patches never calls startPlugin or
\* stopPlugin on it and leaves plugin.started as it was; when it was enabled
\* (it is being disabled), or when its dependencies came up without
\* failures and without needing a restart, the call sets the enabled setting
\* to the opposite of what isEnabled() was and gives the plugin's name to
\* onRestartNeeded.
C11_PatchedToggleWaitsForRestart ==
    \A pl \in PluginNames :
        (last.plugin = pl /\ patches[pl]) =>
            /\ last.called = "none"
            /\ pluginStarted[pl] = last.startedBefore
            /\ (last.wasEnabled \/ (last.failures = {} /\ ~last.restartNeeded)) =>
                  /\ enabled[pl] = ~last.wasEnabled
                  /\ last.notified
                  /\ pl \in changes

\* A started plugin with patches has been switched off: its setting is
\* off, it is still started, and its name is in the change list.
C11_Witness ==
    \E pl \in PluginNames :
        /\ last.plugin = pl
        /\ patches[pl]
        /\ last.wasEnabled
        /\ last.enabledBefore
        /\ ~enabled[pl]
        /\ pluginStarted[pl]
        /\ pl \in changes

\* The latest toggleEnabled call could not complete: the dependencies
\* reported a failure, or startPlugin / stopPlugin returned a falsy result.
ToggleFailed ==
    \/ ~last.wasEnabled /\ last.failures # {}
    \/ last.called # "none" /\ ~last.result

\* C13: a failed toggle leaves the settings unchanged.  After a call that
\* could not complete, the plugin's enabled setting has its previous value
\* and onRestartNeeded was not called; a call that changed the setting did
\* not fail.
C13_FailedToggleKeepsSetting ==
    \A pl \in PluginNames :
        last.plugin = pl =>
            /\ ToggleFailed => (enabled[pl] = last.enabledBefore /\ ~last.notified)
            /\ enabled[pl] # last.enabledBefore => ~ToggleFailed

\* stopPlugin failed on a started plugin without patches: it is still
\* enabled in the settings.
C13_Witness ==
    \E pl \in PluginNames :
        /\ last.plugin = pl
        /\ last.called = "stopPlugin"
        /\ ~last.result
        /\ last.enabledBefore
        /\ enabled[pl]
        /\ ~patches[pl]

====
